---- MODULE Spec2Model ----
(***************************************************************************)
(* The backtest engine of src/backtest/backtest.py (BacktestEngine) with   *)
(* the data fetcher of src/data/fetch_market_data.py.                      *)
(*                                                                         *)
(* Days are integers.  A ticker's history is the run of daily bars         *)
(* 0 .. last[t] (no bar at all when last[t] = -1).  Money is an integer    *)
(* number of currency units; a float quotient the engine computes is kept  *)
(* exactly, as a pair <<numerator, denominator>>.                          *)
(*                                                                         *)
(* The ledger (portfolio.Portfolio) and the decision agent                 *)
(* (llm.TradingAgent) are collaborators whose code is outside src/; they   *)
(* are modelled from the contracts of spec.md section 6.                   *)
(***************************************************************************)
EXTENDS Integers, Sequences, FiniteSets, TLC

\* ------------------------------------------------------------------ bounds
\* Last day a bar can exist on; the window is 1 .. MaxDay - 1.
MaxDay == 13
\* run_backtest calls made on one engine.
MaxRuns == 2
\* Last bar day of the histories offered to the agent-driven strategy.
MaxLlmDay == 2
\* MetricsSpec: longest DailyResult sequence, largest total_value / capital.
MaxLen == 3
MaxValue == 2

\* --------------------------------------------------------------- the world
Universe == {"SPY", "QQQ"}

TickerLists == {<<"SPY", "QQQ">>, <<"QQQ", "SPY">>}

Capitals == {1000, 2000}

Frequencies == {"daily", "weekly"}

\* run_backtest(use_llm, strategy): one argument pair per engine, as
\* run_comparison_backtest drives it.
RunArgs ==
    { [strategy |-> "buy_and_hold", use_llm |-> FALSE],
      [strategy |-> "equal_weight", use_llm |-> FALSE],
      [strategy |-> "llm", use_llm |-> TRUE],
      [strategy |-> "llm", use_llm |-> FALSE] }

\* benchmark: str = "SPY"
DefaultBenchmark == "SPY"

\* The Close column of ticker t's bar of day d.
Close(t, d) == IF t = "SPY" THEN 2 + (d % 3) ELSE 4 - (d % 2)

\* ---------------------------------------------------------------- helpers
Min(S) == CHOOSE x \in S : \A y \in S : x <= y

RECURSIVE SortedSeq(_)
SortedSeq(S) == IF S = {} THEN <<>>
                ELSE <<Min(S)>> \o SortedSeq(S \ {Min(S)})

\* Exact quotients: <<a, b>> stands for a / b, with b > 0.
RatLe(x, y) == x[1] * y[2] <= y[1] * x[2]
RatEq(x, y) == x[1] * y[2] = y[1] * x[2]
RatMax(x, y) == IF RatLe(y, x) THEN x ELSE y

\* ------------------------------------------------------------------- state
VARIABLES
    \* the world: last[t] is the last day ticker t has a bar on (-1: none),
    \* fetch_raises the tickers whose history request raises
    last, fetch_raises,
    \* the decision agent's replies, in the order it gives them
    agent_script,
    \* BacktestEngine.__init__
    start_date, end_date, initial_capital, tickers, rebalance_frequency,
    portfolio, results,
    \* the arguments of this engine's run_backtest calls
    strategy, use_llm,
    \* run_backtest: its position and its locals
    pc, step, data, trading_dates, i, current_prices, agent_calls,
    benchmark_returns, metrics,
    \* what the last run_backtest call returned or raised
    ret,
    \* run_backtest calls started so far
    runs,
    \* history: the collaborator calls and appends of the current run
    calls,
    \* run_comparison_backtest: its position, locals and outcome
    sweep,
    \* what the last fetch_historical_data call of the data module returned
    fetched

vars == <<last, fetch_raises, agent_script, start_date, end_date, initial_capital, tickers,
          rebalance_frequency, portfolio, results, strategy, use_llm, pc,
          step, data, trading_dates, i, current_prices, agent_calls,
          benchmark_returns, metrics, ret, runs, calls, sweep,
          fetched>>

world == <<last, fetch_raises, agent_script>>
config == <<start_date, end_date, initial_capital, tickers,
            rebalance_frequency, strategy, use_llm>>

\* ------------------------------------------------- the ledger (Portfolio)
\* The cash a Portfolio starts with when its constructor is given none.
PortfolioInitialCapital == 1000

\* Shares are kept in units of 1 / ShareScale of a share.
ShareScale == 12

NoPortfolio ==
    [built |-> FALSE, cash |-> 0, positions |-> [t \in {} |-> 0],
     trades |-> <<>>]

\* Portfolio(state_file, data_dir)
NewPortfolio ==
    [built |-> TRUE, cash |-> PortfolioInitialCapital,
     positions |-> [t \in {} |-> 0], trades |-> <<>>]

Held(p) == DOMAIN p.positions

RECURSIVE SumValue(_, _)
SumValue(pos, S) ==
    IF S = {} THEN 0
    ELSE LET t == CHOOSE x \in S : TRUE
         IN (pos[t].shares * pos[t].price) \div ShareScale
            + SumValue(pos, S \ {t})

PositionsValue(p) == SumValue(p.positions, Held(p))

TotalValue(p) == p.cash + PositionsValue(p)

\* get_summary()
GetSummary(p) ==
    [total_value |-> TotalValue(p),
     cash |-> p.cash,
     positions_value |-> PositionsValue(p),
     total_return_pct |->
         ((TotalValue(p) - PortfolioInitialCapital) * 100)
             \div PortfolioInitialCapital,
     num_positions |-> Cardinality(Held(p))]

SnapTickers(snap) == {snap[k][1] : k \in 1..Len(snap)}

SnapPrice(snap, t) ==
    LET k == CHOOSE j \in 1..Len(snap) : snap[j][1] = t IN snap[k][2]

\* update_prices(prices): marks the held positions to the snapshot.
LedgerUpdatePrices(p, snap) ==
    [p EXCEPT !.positions =
        [t \in Held(p) |->
            IF t \in SnapTickers(snap)
            THEN [p.positions[t] EXCEPT !.price = SnapPrice(snap, t)]
            ELSE p.positions[t]]]

\* buy(ticker, pct, price): pct percent of the portfolio's value, pct being
\* the quotient pct[1] / pct[2]; refused when it cannot be paid.
LedgerBuy(p, ticker, pct, price) ==
    LET amount == (TotalValue(p) * pct[1]) \div (pct[2] * 100)
        bought == (amount * ShareScale) \div price
        had == IF ticker \in Held(p) THEN p.positions[ticker].shares ELSE 0
    IN IF price <= 0 \/ amount <= 0 \/ amount > p.cash
       THEN p
       ELSE [p EXCEPT
               !.cash = p.cash - amount,
               !.positions =
                   [t \in Held(p) \cup {ticker} |->
                       IF t = ticker
                       THEN [shares |-> had + bought, price |-> price]
                       ELSE p.positions[t]],
               !.trades = Append(p.trades, <<"buy", ticker>>)]

\* sell(ticker, price): closes the position, if there is one.
LedgerSell(p, ticker, price) ==
    IF ticker \notin Held(p)
    THEN p
    ELSE [p EXCEPT
            !.cash = p.cash
                     + (p.positions[ticker].shares * price) \div ShareScale,
            !.positions = [t \in Held(p) \ {ticker} |-> p.positions[t]],
            !.trades = Append(p.trades, <<"sell", ticker>>)]

\* ------------------------------------------------------ the decision agent
\* The instruction lists the agent answers with: {ticker, action, pct} with
\* action "buy" or "sell".  "GLD" is in no snapshot.
AgentActions ==
    { <<>>,
      << [ticker |-> "SPY", action |-> "buy", pct |-> 50],
         [ticker |-> "QQQ", action |-> "buy", pct |-> 30] >>,
      << [ticker |-> "SPY", action |-> "sell", pct |-> 0],
         [ticker |-> "GLD", action |-> "buy", pct |-> 20],
         [ticker |-> "QQQ", action |-> "buy", pct |-> 40] >>,
      << [ticker |-> "QQQ", action |-> "buy", pct |-> 20],
         [ticker |-> "QQQ", action |-> "sell", pct |-> 0] >> }

\* What a call of the agent does: it answers with an instruction list, or it
\* raises.
AgentDecisions ==
    {[raises |-> FALSE, actions |-> a] : a \in AgentActions}
    \cup {[raises |-> TRUE, actions |-> <<>>]}

AgentScripts == [1..2 -> AgentDecisions]

\* get_trading_decision(market_data, portfolio_summary), k-th call of a run
AgentReply(k) == agent_script[(k % Len(agent_script)) + 1]

\* ------------------------------------------------ data/fetch_market_data
\* stock.history(period, interval): the bars of ticker t
Hist(t) == 0..last[t]

InSeq(x, xs) == \E k \in 1..Len(xs) : xs[k] = x

\* The loop of fetch_historical_data from ticker list ts on, acc being the
\* keys of results so far: "continue" after an exception and after an empty
\* history, results[ticker] = hist otherwise.
RECURSIVE FetchLoop(_, _)
FetchLoop(ts, acc) ==
    IF ts = <<>> THEN acc
    ELSE LET ticker == Head(ts)
         IN IF ticker \in fetch_raises THEN FetchLoop(Tail(ts), acc)
            ELSE IF Hist(ticker) = {} THEN FetchLoop(Tail(ts), acc)
            ELSE FetchLoop(Tail(ts),
                           IF InSeq(ticker, acc) THEN acc
                           ELSE Append(acc, ticker))

\* The loop ended by the first exception.
RECURSIVE FetchLoopStopAtError(_, _)
FetchLoopStopAtError(ts, acc) ==
    IF ts = <<>> THEN acc
    ELSE LET ticker == Head(ts)
         IN IF ticker \in fetch_raises THEN acc
            ELSE IF Hist(ticker) = {} THEN FetchLoopStopAtError(Tail(ts), acc)
            ELSE FetchLoopStopAtError(Tail(ts),
                                      IF InSeq(ticker, acc) THEN acc
                                      ELSE Append(acc, ticker))

FetchHistoricalStopAtError(ts) == FetchLoopStopAtError(ts, <<>>)

\* fetch_historical_data(tickers, period): the keys of the returned mapping,
\* in the mapping's order.
FetchHistorical(ts) == FetchLoop(ts, <<>>)

\* ------------------------------------------------------- BacktestEngine
InWindow(d) == start_date <= d /\ d <= end_date

\* df[(df.index >= start) & (df.index <= end)]
FilterToWindow(bars) == {d \in bars : InWindow(d)}

\* fetch_historical_data(self): the window's part of every fetched series,
\* the series empty in the window dropped; a sequence of
\* [ticker, bars] in the mapping's order.
WindowSeries(raw) ==
    [k \in 1..Len(raw) |->
        [ticker |-> raw[k], bars |-> FilterToWindow(Hist(raw[k]))]]

\* The same without "if not df.empty".
EngineFetchKeepEmpty(raw) == WindowSeries(raw)

EngineFetch(raw) ==
    SelectSeq(WindowSeries(raw), LAMBDA e : e.bars # {})

DataTickers(d) == {d[k].ticker : k \in 1..Len(d)}

DataBars(d, t) ==
    LET k == CHOOSE j \in 1..Len(d) : d[j].ticker = t IN d[k].bars

\* _get_trading_dates: the first ticker's dates, within the window
GetTradingDates(d) == SortedSeq({x \in d[1].bars : InWindow(x)})

\* _get_prices_for_date: <<ticker, close>> of every ticker with a bar on
\* exactly that date, in the mapping's order
RECURSIVE GetPricesForDate(_, _)
GetPricesForDate(d, date) ==
    IF d = <<>> THEN <<>>
    ELSE (IF date \in Head(d).bars
          THEN << <<Head(d).ticker, Close(Head(d).ticker, date)>> >>
          ELSE <<>>)
         \o GetPricesForDate(Tail(d), date)

\* _should_rebalance with the days counted from 1.
ShouldRebalanceOffByOne(day_index) ==
    IF rebalance_frequency = "daily" THEN TRUE
    ELSE IF rebalance_frequency = "weekly" THEN (day_index + 1) % 5 = 0
    ELSE FALSE

\* _should_rebalance(day_index, current_date)
ShouldRebalance(day_index) ==
    IF rebalance_frequency = "daily" THEN TRUE
    ELSE IF rebalance_frequency = "weekly" THEN day_index % 5 = 0
    ELSE FALSE

\* _get_benchmark_returns: the per-step returns of the benchmark's closes
GetBenchmarkReturns(d, benchmark_ticker) ==
    IF benchmark_ticker \notin DataTickers(d) THEN <<>>
    ELSE LET days == SortedSeq(FilterToWindow(DataBars(d, benchmark_ticker)))
             closes == [k \in 1..Len(days) |-> Close(benchmark_ticker, days[k])]
         IN [k \in 1..(IF Len(closes) = 0 THEN 0 ELSE Len(closes) - 1) |->
                <<closes[k + 1] - closes[k], closes[k]>>]

\* One call the engine makes on a collaborator, or one append to results.
Call(day, op, ticker, pct, price, snap) ==
    [i |-> day, op |-> op, ticker |-> ticker, pct |-> pct, price |-> price,
     snap |-> snap]

Mark(day, op, snap) == Call(day, op, "-", <<0, 1>>, 0, snap)

\* _execute_equal_weight_strategy without "if self.portfolio.positions".
EqualWeightOrdersNoGuard(p, snap, day) ==
    IF Len(snap) = 0 THEN <<>>
    ELSE [k \in 1..Len(snap) |->
            Call(day, "buy", snap[k][1], <<90, Len(snap)>>, snap[k][2], <<>>)]

\* _execute_equal_weight_strategy: the buys it issues
EqualWeightOrders(p, snap, day) ==
    IF Held(p) # {} THEN <<>>
    ELSE IF Len(snap) = 0 THEN <<>>
    ELSE [k \in 1..Len(snap) |->
            Call(day, "buy", snap[k][1], <<90, Len(snap)>>, snap[k][2], <<>>)]

\* _execute_llm_strategy with "break" for "continue" at an absent ticker.
RECURSIVE LlmOrdersStopAtAbsent(_, _, _)
LlmOrdersStopAtAbsent(actions, snap, day) ==
    IF actions = <<>> THEN <<>>
    ELSE LET a == Head(actions)
             rest == LlmOrdersStopAtAbsent(Tail(actions), snap, day)
         IN IF a.ticker \notin SnapTickers(snap) THEN <<>>
            ELSE IF a.action = "buy"
            THEN <<Call(day, "buy", a.ticker, <<a.pct, 1>>,
                        SnapPrice(snap, a.ticker), <<>>)>> \o rest
            ELSE IF a.action = "sell"
            THEN <<Call(day, "sell", a.ticker, <<0, 1>>,
                        SnapPrice(snap, a.ticker), <<>>)>> \o rest
            ELSE rest

\* _execute_llm_strategy: the buys and sells it issues for a decision
RECURSIVE LlmOrders(_, _, _)
LlmOrders(actions, snap, day) ==
    IF actions = <<>> THEN <<>>
    ELSE LET a == Head(actions)
             rest == LlmOrders(Tail(actions), snap, day)
         IN IF a.ticker \notin SnapTickers(snap) THEN rest
            ELSE IF a.action = "buy"
            THEN <<Call(day, "buy", a.ticker, <<a.pct, 1>>,
                        SnapPrice(snap, a.ticker), <<>>)>> \o rest
            ELSE IF a.action = "sell"
            THEN <<Call(day, "sell", a.ticker, <<0, 1>>,
                        SnapPrice(snap, a.ticker), <<>>)>> \o rest
            ELSE rest

\* The ledger after the orders, executed in order.
RECURSIVE Execute(_, _)
Execute(p, orders) ==
    IF orders = <<>> THEN p
    ELSE LET o == Head(orders)
         IN Execute(IF o.op = "buy"
                    THEN LedgerBuy(p, o.ticker, o.pct, o.price)
                    ELSE LedgerSell(p, o.ticker, o.price),
                    Tail(orders))

\* _record_daily_result: the DailyResult of a date
DailyResult(date, p) ==
    LET summary == GetSummary(p)
    IN [date |-> date,
        total_value |-> summary.total_value,
        cash |-> summary.cash,
        positions_value |-> summary.positions_value,
        total_return_pct |-> summary.total_return_pct,
        num_positions |-> summary.num_positions]

\* ------------------------------------------------------ _calculate_metrics
AllEqual(xs) == \A j, k \in 1..Len(xs) : RatEq(xs[j], xs[k])

Negatives(xs) == SelectSeq(xs, LAMBDA x : x[1] < 0)

Positives(xs) == SelectSeq(xs, LAMBDA x : x[1] > 0)

\* A peak that is never raised.
NewPeakStale(peak, value) == peak

\* if value > peak: peak = value
NewPeak(peak, value) == IF value > peak THEN value ELSE peak

\* The drawdown loop from its k-th value on: ZeroDivisionError when the
\* peak it divides by is 0.
RECURSIVE DrawdownLoop(_, _, _, _, _)
DrawdownLoop(values, k, peak, max_drawdown, drawdowns) ==
    IF k > Len(values)
    THEN [raised |-> FALSE, max_drawdown |-> max_drawdown,
          drawdowns |-> drawdowns]
    ELSE LET value == values[k]
             peak2 == NewPeak(peak, value)
             drawdown == <<peak2 - value, peak2>>
         IN IF peak2 = 0
            THEN [raised |-> TRUE, max_drawdown |-> max_drawdown,
                  drawdowns |-> drawdowns]
            ELSE DrawdownLoop(values, k + 1, peak2,
                              RatMax(max_drawdown, drawdown),
                              Append(drawdowns, drawdown))

\* if benchmark_returns and len(benchmark_returns) == len(returns)
BenchmarkGate(bench, returns) == bench # <<>> /\ Len(bench) = Len(returns)

Raise(error, line) == [kind |-> "raise", error |-> error, line |-> line]

\* _calculate_metrics(benchmark_returns) on self.results, self.initial_capital
\* and len(self.portfolio.trades).  A value that is no quotient of integers is
\* kept as what decides it: "zero" and "inf" are the fallbacks of a guarded
\* division, "ratio" the guarded quotient itself.
CalculateMetrics(rs, capital, bench, num_trades) ==
    IF rs = <<>> THEN [kind |-> "empty"]
    ELSE
    LET n == Len(rs)
        values == [k \in 1..n |-> rs[k].total_value]
        returns == [k \in 1..(n - 1) |->
                       <<values[k + 1] - values[k], values[k]>>]
        dd == DrawdownLoop(values, 1, capital, <<0, 1>>, <<>>)
        volatility_positive == returns # <<>> /\ ~AllEqual(returns)
        downside_positive == ~AllEqual(Negatives(returns))
        gate == BenchmarkGate(bench, returns)
    IN IF \E k \in 1..(n - 1) : values[k] = 0
       THEN Raise("ZeroDivisionError", 298)
       ELSE IF capital = 0 THEN Raise("ZeroDivisionError", 302)
       ELSE IF dd.raised THEN Raise("ZeroDivisionError", 323)
       ELSE
       [kind |-> "report",
        total_return |-> <<values[n] - capital, capital>>,
        annualized_return |->
            [base |-> <<values[n], capital>>, exponent |-> <<365, n>>],
        volatility |-> IF volatility_positive THEN "positive" ELSE "zero",
        sharpe_ratio |-> IF volatility_positive THEN "ratio" ELSE "zero",
        sortino_ratio |-> IF downside_positive THEN "ratio" ELSE "zero",
        max_drawdown |-> dd.max_drawdown,
        calmar_ratio |->
            IF dd.max_drawdown[1] > 0 THEN "ratio" ELSE "zero",
        omega_ratio |->
            IF Negatives(returns) # <<>> THEN "ratio" ELSE "inf",
        win_rate |->
            IF returns # <<>>
            THEN <<Len(Positives(returns)), Len(returns)>> ELSE <<0, 1>>,
        profit_factor |->
            IF Negatives(returns) # <<>> THEN "ratio" ELSE "inf",
        num_trades |-> num_trades,
        beta |-> IF gate /\ ~AllEqual(bench) THEN "ratio" ELSE "zero",
        alpha |-> IF gate THEN "computed" ELSE "zero",
        equity_curve |-> values,
        drawdown_curve |-> dd.drawdowns,
        daily_returns |-> returns]

\* ------------------------------------------------------------ run_backtest
\* The body with the DailyResult appended before the rebalance step.
LoopBodyRecordFirst == <<"prices", "update", "record", "strategy">>

\* The statements of the simulation loop's body, in program order.
LoopBody == <<"prices", "update", "strategy", "record">>

At(name) == pc = "loop" /\ LoopBody[step] = name

\* After a statement of the body: the next statement, or the next date, or
\* the end of the loop.
Advance ==
    IF step < Len(LoopBody)
    THEN step' = step + 1 /\ UNCHANGED <<i, pc>>
    ELSE /\ step' = 1
         /\ i' = i + 1
         /\ pc' = IF i + 1 < Len(trading_dates) THEN "loop" ELSE "benchmark"

\* No run_comparison_backtest call is under way.
NoSweep ==
    [pc |-> "off", strategies |-> <<>>, k |-> 0, results |-> <<>>,
     reports |-> <<>>, returned |-> FALSE]

Init ==
    /\ last \in [Universe -> -1..MaxDay]
    /\ fetch_raises \in SUBSET {t \in Universe : last[t] = -1}
    /\ fetched = <<>>
    /\ start_date = 1
    /\ end_date = MaxDay - 1
    /\ initial_capital \in Capitals
    /\ tickers \in TickerLists
    /\ rebalance_frequency \in Frequencies
    /\ \E a \in RunArgs : strategy = a.strategy /\ use_llm = a.use_llm
    /\ strategy = "llm" => \A t \in Universe : last[t] <= MaxLlmDay
    /\ agent_script \in
           IF strategy = "llm" /\ use_llm THEN AgentScripts ELSE {<<>>}
    /\ portfolio = NoPortfolio
    /\ results = <<>>
    /\ pc = "idle"
    /\ step = 1
    /\ data = <<>>
    /\ trading_dates = <<>>
    /\ i = 0
    /\ current_prices = <<>>
    /\ agent_calls = 0
    /\ benchmark_returns = <<>>
    /\ metrics = [kind |-> "none"]
    /\ ret = [kind |-> "none"]
    /\ runs = 0
    /\ calls = <<>>
    /\ sweep = NoSweep

\* run_backtest up to the loop: fetch, the no-data return, the new ledger,
\* the trading dates, the agent.
StartRun ==
    /\ pc = "idle"
    /\ runs < MaxRuns
    /\ runs' = runs + 1
    /\ calls' = <<>>
    /\ metrics' = [kind |-> "none"]
    /\ fetched' = FetchHistorical(tickers)
    /\ LET filtered == EngineFetch(FetchHistorical(tickers))
       IN /\ data' = filtered
          /\ IF filtered = <<>>
             THEN /\ ret' = [kind |-> "empty"]
                  /\ UNCHANGED <<pc, portfolio, trading_dates, i, step,
                                 agent_calls>>
             ELSE /\ ret' = [kind |-> "running"]
                  /\ portfolio' = NewPortfolio
                  /\ trading_dates' = GetTradingDates(filtered)
                  /\ i' = 0
                  /\ step' = 1
                  /\ agent_calls' = 0
                  /\ pc' = IF GetTradingDates(filtered) = <<>>
                           THEN "benchmark" ELSE "loop"
    /\ UNCHANGED <<world, config, sweep, results, current_prices,
                   benchmark_returns>>

\* current_prices = self._get_prices_for_date(data, current_date)
GetPrices ==
    /\ At("prices")
    /\ current_prices' = GetPricesForDate(data, trading_dates[i + 1])
    /\ calls' = Append(calls, Mark(i, "prices", current_prices'))
    /\ Advance
    /\ UNCHANGED <<world, config, sweep, fetched, portfolio, results, data, trading_dates,
                   agent_calls, benchmark_returns, metrics, ret, runs>>

\* self.portfolio.update_prices(current_prices)
UpdatePrices ==
    /\ At("update")
    /\ portfolio' = LedgerUpdatePrices(portfolio, current_prices)
    /\ calls' = Append(calls, Mark(i, "update_prices", current_prices))
    /\ Advance
    /\ UNCHANGED <<world, config, sweep, fetched, results, data, trading_dates,
                   current_prices, agent_calls, benchmark_returns, metrics,
                   ret, runs>>

\* if should_rebalance: the strategy's executor, with every order it issues
\* An exception of the agent is not caught: it ends the run_backtest call.
Strategy ==
    /\ At("strategy")
    /\ IF ShouldRebalance(i) /\ strategy = "llm" /\ use_llm
       THEN LET decision == AgentReply(agent_calls)
                orders == LlmOrders(decision.actions, current_prices, i)
            IN /\ agent_calls' = agent_calls + 1
               /\ IF decision.raises
                  THEN /\ calls' = Append(calls, Mark(i, "execute_llm", <<>>))
                       /\ ret' = [kind |-> "raised", error |-> "AgentError"]
                       /\ pc' = "idle"
                       /\ UNCHANGED <<portfolio, step, i>>
                  ELSE /\ portfolio' = Execute(portfolio, orders)
                       /\ calls' = calls \o <<Mark(i, "execute_llm", <<>>)>>
                                         \o orders
                       /\ Advance
                       /\ UNCHANGED ret
       ELSE IF ShouldRebalance(i) /\ strategy = "equal_weight"
       THEN LET orders == EqualWeightOrders(portfolio, current_prices, i)
            IN /\ portfolio' = Execute(portfolio, orders)
               /\ calls' = calls \o <<Mark(i, "execute_equal_weight", <<>>)>>
                                 \o orders
               /\ Advance
               /\ UNCHANGED <<agent_calls, ret>>
       ELSE Advance /\ UNCHANGED <<portfolio, calls, agent_calls, ret>>
    /\ UNCHANGED <<world, config, sweep, fetched, results, data, trading_dates,
                   current_prices, benchmark_returns, metrics, runs>>

\* self._record_daily_result(current_date, current_prices)
Record ==
    /\ At("record")
    /\ results' = Append(results, DailyResult(trading_dates[i + 1], portfolio))
    /\ calls' = Append(calls, Mark(i, "record", <<>>))
    /\ Advance
    /\ UNCHANGED <<world, config, sweep, fetched, portfolio, data, trading_dates,
                   current_prices, agent_calls, benchmark_returns, metrics,
                   ret, runs>>

\* benchmark_returns = self._get_benchmark_returns(data, benchmark)
Benchmark ==
    /\ pc = "benchmark"
    /\ benchmark_returns' = GetBenchmarkReturns(data, DefaultBenchmark)
    /\ pc' = "metrics"
    /\ UNCHANGED <<world, config, sweep, fetched, portfolio, results, step, data,
                   trading_dates, i, current_prices, agent_calls, metrics,
                   ret, runs, calls>>

\* metrics = self._calculate_metrics(benchmark_returns); an exception of it
\* ends the call.
Metrics ==
    /\ pc = "metrics"
    /\ metrics' = CalculateMetrics(results, initial_capital,
                                   benchmark_returns, Len(portfolio.trades))
    /\ IF metrics'.kind = "raise"
       THEN /\ ret' = [kind |-> "raised", error |-> metrics'.error]
            /\ pc' = "idle"
       ELSE /\ pc' = "return"
            /\ UNCHANGED ret
    /\ UNCHANGED <<world, config, sweep, fetched, portfolio, results, step, data,
                   trading_dates, i, current_prices, agent_calls,
                   benchmark_returns, runs, calls>>

\* return {...}: metrics["total_return"] of an empty metrics is a KeyError.
Return ==
    /\ pc = "return"
    /\ pc' = "idle"
    /\ ret' =
         IF metrics.kind = "empty"
         THEN [kind |-> "raised", error |-> "KeyError"]
         ELSE [kind |-> "result",
               start_date |-> start_date,
               end_date |-> end_date,
               strategy |-> strategy,
               initial_capital |-> initial_capital,
               final_value |-> TotalValue(portfolio),
               total_return |-> metrics.total_return,
               max_drawdown |-> metrics.max_drawdown,
               beta |-> metrics.beta,
               alpha |-> metrics.alpha,
               num_trades |-> metrics.num_trades,
               equity_curve |-> metrics.equity_curve,
               drawdown_curve |-> metrics.drawdown_curve,
               daily_returns |-> metrics.daily_returns,
               daily_results |-> results]
    /\ UNCHANGED <<world, config, sweep, fetched, portfolio, results, step, data,
                   trading_dates, i, current_prices, agent_calls,
                   benchmark_returns, metrics, runs, calls>>

Next ==
    \/ StartRun
    \/ GetPrices
    \/ UpdatePrices
    \/ Strategy
    \/ Record
    \/ Benchmark
    \/ Metrics
    \/ Return

Spec == Init /\ [][Next]_vars

\* ------------------------------------------------- run_comparison_backtest
\* initial_capital: float = 10000.0
DefaultInitialCapital == 10000

\* strategies = ["buy_and_hold", "equal_weight"], plus "llm" if include_llm
SweepStrategies(include_llm) ==
    <<"buy_and_hold", "equal_weight">>
        \o (IF include_llm THEN <<"llm">> ELSE <<>>)

\* A call run_comparison_backtest(start_date, end_date, tickers, include_llm)
\* about to enter its loop; no engine exists yet.
SweepInit ==
    /\ last \in [Universe -> -1..MaxLlmDay]
    /\ fetch_raises \in SUBSET {t \in Universe : last[t] = -1}
    /\ fetched = <<>>
    /\ start_date = 1
    /\ end_date = MaxDay - 1
    /\ tickers \in TickerLists
    /\ \E include_llm \in BOOLEAN :
         /\ sweep = [pc |-> "loop", strategies |-> SweepStrategies(include_llm),
                     k |-> 1, results |-> <<>>, reports |-> <<>>,
                     returned |-> FALSE]
         /\ agent_script \in IF include_llm THEN AgentScripts ELSE {<<>>}
    /\ initial_capital = DefaultInitialCapital
    /\ rebalance_frequency = "daily"
    /\ strategy = "buy_and_hold"
    /\ use_llm = FALSE
    /\ portfolio = NoPortfolio
    /\ results = <<>>
    /\ pc = "idle"
    /\ step = 1
    /\ data = <<>>
    /\ trading_dates = <<>>
    /\ i = 0
    /\ current_prices = <<>>
    /\ agent_calls = 0
    /\ benchmark_returns = <<>>
    /\ metrics = [kind |-> "none"]
    /\ ret = [kind |-> "none"]
    /\ runs = 0
    /\ calls = <<>>

\* engine = BacktestEngine(start_date, end_date, tickers=tickers,
\* rebalance_frequency="daily"); use_llm = (strategy == "llm")
SweepConstruct ==
    /\ sweep.pc = "loop"
    /\ sweep.k <= Len(sweep.strategies)
    /\ sweep' = [sweep EXCEPT !.pc = "call"]
    /\ initial_capital' = DefaultInitialCapital
    /\ rebalance_frequency' = "daily"
    /\ strategy' = sweep.strategies[sweep.k]
    /\ use_llm' = (sweep.strategies[sweep.k] = "llm")
    /\ portfolio' = NoPortfolio
    /\ results' = <<>>
    /\ pc' = "idle"
    /\ runs' = 0
    /\ ret' = [kind |-> "none"]
    /\ UNCHANGED <<world, fetched, start_date, end_date, tickers, step, data,
                   trading_dates, i, current_prices, agent_calls,
                   benchmark_returns, metrics, calls>>

\* result = engine.run_backtest(use_llm=use_llm, strategy=strategy)
SweepRun ==
    /\ sweep.pc = "call"
    /\ \/ runs = 0 /\ StartRun
       \/ GetPrices
       \/ UpdatePrices
       \/ Strategy
       \/ Record
       \/ Benchmark
       \/ Metrics
       \/ Return

\* results[strategy] = result; print_backtest_report(result, strategy), which
\* logs "No results" for an empty result and prints the report of any other.
\* An exception of run_backtest is not caught: it ends the sweep.
SweepCollect ==
    /\ sweep.pc = "call"
    /\ pc = "idle"
    /\ runs = 1
    /\ sweep' =
         IF ret.kind = "raised"
         THEN [sweep EXCEPT !.pc = "raised"]
         ELSE [sweep EXCEPT
                 !.pc = "loop",
                 !.k = sweep.k + 1,
                 !.results = Append(sweep.results,
                                    [strategy |-> strategy, kind |-> ret.kind]),
                 !.reports = Append(sweep.reports,
                                    [strategy |-> strategy,
                                     printed |-> ret.kind # "empty"])]
    /\ UNCHANGED <<world, config, fetched, portfolio, results, pc, step, data,
                   trading_dates, i, current_prices, agent_calls,
                   benchmark_returns, metrics, ret, runs, calls>>

\* return results
SweepReturn ==
    /\ sweep.pc = "loop"
    /\ sweep.k > Len(sweep.strategies)
    /\ sweep' = [sweep EXCEPT !.pc = "done", !.returned = TRUE]
    /\ UNCHANGED <<world, config, fetched, portfolio, results, pc, step, data,
                   trading_dates, i, current_prices, agent_calls,
                   benchmark_returns, metrics, ret, runs, calls>>

SweepNext ==
    \/ SweepConstruct
    \/ SweepRun
    \/ SweepCollect
    \/ SweepReturn

SweepSpec == SweepInit /\ [][SweepNext]_vars

\* --------------------------------- fetch_historical_data on any ticker list
FetchUniverse == {"SPY", "QQQ", "GLD"}

\* The ticker lists without repetition.
FetchRequests ==
    {ts \in UNION {[1..n -> FetchUniverse] : n \in 1..Cardinality(FetchUniverse)} :
        \A j, k \in 1..Len(ts) : j # k => ts[j] # ts[k]}

\* Before a call fetch_historical_data(tickers), every history being present,
\* empty or failing.
FetchInit ==
    /\ last \in [FetchUniverse -> -1..1]
    /\ fetch_raises \in SUBSET {t \in FetchUniverse : last[t] = -1}
    /\ fetched = <<>>
    /\ tickers \in FetchRequests
    /\ agent_script = <<>>
    /\ start_date = 1
    /\ end_date = MaxDay - 1
    /\ initial_capital = DefaultInitialCapital
    /\ rebalance_frequency = "daily"
    /\ strategy = "buy_and_hold"
    /\ use_llm = FALSE
    /\ portfolio = NoPortfolio
    /\ results = <<>>
    /\ pc = "fetch"
    /\ step = 1
    /\ data = <<>>
    /\ trading_dates = <<>>
    /\ i = 0
    /\ current_prices = <<>>
    /\ agent_calls = 0
    /\ benchmark_returns = <<>>
    /\ metrics = [kind |-> "none"]
    /\ ret = [kind |-> "none"]
    /\ runs = 0
    /\ calls = <<>>
    /\ sweep = NoSweep

\* fetch_historical_data(tickers)
FetchCall ==
    /\ pc = "fetch"
    /\ fetched' = FetchHistorical(tickers)
    /\ pc' = "fetched"
    /\ UNCHANGED <<world, start_date, end_date, initial_capital, tickers,
                   rebalance_frequency, strategy, use_llm, portfolio, results,
                   step, data, trading_dates, i, current_prices, agent_calls,
                   benchmark_returns, metrics, ret, runs, calls, sweep>>

FetchSpec == FetchInit /\ [][FetchCall]_vars

\* --------------------------------------- _calculate_metrics on any results
\* A DailyResult whose total_value is v.
ResultOf(k, v) ==
    [date |-> k, total_value |-> v, cash |-> v, positions_value |-> 0,
     total_return_pct |-> 0, num_positions |-> 0]

ResultSeqs ==
    UNION { { [k \in 1..n |-> ResultOf(k, f[k])] : f \in [1..n -> 0..MaxValue] }
            : n \in 1..MaxLen }

BenchmarkSeqs ==
    UNION { [1..n -> {<<0, 1>>, <<1, 2>>}] : n \in 0..MaxLen }

\* The engine at the call of _calculate_metrics, with any non-empty results,
\* any initial capital and any benchmark return series.
MetricsInit ==
    /\ last = [t \in Universe |-> -1]
    /\ fetch_raises = {}
    /\ fetched = <<>>
    /\ agent_script = <<>>
    /\ start_date = 1
    /\ end_date = MaxDay - 1
    /\ initial_capital \in 0..MaxValue
    /\ tickers = <<"SPY", "QQQ">>
    /\ rebalance_frequency = "daily"
    /\ strategy = "buy_and_hold"
    /\ use_llm = FALSE
    /\ portfolio = NewPortfolio
    /\ results \in ResultSeqs
    /\ pc = "metrics"
    /\ step = 1
    /\ data = <<>>
    /\ trading_dates = <<>>
    /\ i = 0
    /\ current_prices = <<>>
    /\ agent_calls = 0
    /\ benchmark_returns \in BenchmarkSeqs
    /\ metrics = [kind |-> "none"]
    /\ ret = [kind |-> "running"]
    /\ runs = 1
    /\ calls = <<>>
    /\ sweep = NoSweep

MetricsNext ==
    \/ Metrics
    \/ Return

MetricsSpec == MetricsInit /\ [][MetricsNext]_vars

\* ------------------------------------------------------------------ claims
Rank(op) ==
    CASE op = "prices" -> 1
      [] op = "update_prices" -> 2
      [] op = "record" -> 4
      [] OTHER -> 3

RecordCount == Len(SelectSeq(calls, LAMBDA c : c.op = "record"))

\* C1: the trading dates are processed in ascending order, and the calls of
\* a date come in the order: price snapshot, update_prices with that
\* snapshot, the executor's buys and sells (on a rebalance date only), the
\* append of the date's DailyResult; nothing of date i+1 comes before the
\* DailyResult of date i.
C1_LoopOrder ==
    /\ \A k \in 1..(Len(trading_dates) - 1) :
           trading_dates[k] < trading_dates[k + 1]
    /\ \A k \in 1..Len(calls) :
         LET c == calls[k]
         IN /\ c.i \in 0..(Len(trading_dates) - 1)
            /\ Rank(c.op) = 1 =>
                 IF k = 1 THEN c.i = 0
                 ELSE calls[k - 1].op = "record" /\ c.i = calls[k - 1].i + 1
            /\ Rank(c.op) = 2 =>
                 /\ k > 1
                 /\ calls[k - 1].op = "prices"
                 /\ calls[k - 1].i = c.i
                 /\ calls[k - 1].snap = c.snap
            /\ Rank(c.op) = 3 =>
                 /\ k > 1
                 /\ Rank(calls[k - 1].op) \in {2, 3}
                 /\ calls[k - 1].i = c.i
                 /\ rebalance_frequency = "weekly" => c.i % 5 = 0
            /\ Rank(c.op) = 4 =>
                 /\ k > 1
                 /\ Rank(calls[k - 1].op) \in {2, 3}
                 /\ calls[k - 1].i = c.i
    /\ RecordCount <= Len(results)
    /\ \A k \in 1..RecordCount :
           results[Len(results) - RecordCount + k].date = trading_dates[k]

C1_Witness ==
    /\ pc = "idle"
    /\ ret.kind = "result"
    /\ Len(trading_dates) >= 2
    /\ \E k \in 1..Len(calls) : calls[k].op = "buy" /\ calls[k].i = 0
    /\ \E k \in 1..Len(calls) : calls[k].op = "record" /\ calls[k].i = 1

\* C2: a run_backtest call that returns a result returns exactly one
\* DailyResult, and one equity-curve entry, per trading date of that run, in
\* date order; also when it is not the engine's first run.
C2_OneResultPerDate ==
    ret.kind = "result" =>
        /\ Len(ret.daily_results) = Len(trading_dates)
        /\ Len(ret.equity_curve) = Len(trading_dates)
        /\ \A k \in 1..Len(trading_dates) :
               ret.daily_results[k].date = trading_dates[k]

\* C3: when the simulation loop of a run starts, the ledger holds the
\* engine's configured initial_capital as cash and no position.
C3_FreshLedger ==
    (pc = "loop" /\ i = 0 /\ step = 1) =>
        /\ portfolio.cash = initial_capital
        /\ Held(portfolio) = {}

NoBarInWindow ==
    \A k \in 1..Len(tickers) :
        ~ \E d \in 0..last[tickers[k]] : start_date <= d /\ d <= end_date

\* C4: a run whose window holds no trading date returns the empty result
\* and raises nothing; metrics are never computed on an empty result list,
\* and no empty metrics record is ever indexed.
C4_ZeroDates ==
    /\ ret.kind = "raised" => (ret.error = "AgentError" /\ ~NoBarInWindow)
    /\ metrics.kind # "empty"
    /\ pc \in {"benchmark", "metrics", "return"} => results # <<>>
    /\ pc = "loop" => trading_dates # <<>>
    /\ (runs > 0 /\ NoBarInWindow) => (pc = "idle" /\ ret.kind = "empty")
    /\ ret.kind = "empty" => NoBarInWindow

C4_Witness ==
    /\ runs > 0
    /\ ret.kind = "empty"
    /\ \E t \in Universe : last[t] >= 0

\* The calls of the current run that are not yet in calls.
NewCalls == SubSeq(calls', Len(calls) + 1, Len(calls'))

BuyDays == {calls[k].i : k \in {j \in 1..Len(calls) : calls[j].op = "buy"}}

\* C5: when the equal-weight executor fires on a ledger with no position and
\* a snapshot of n >= 1 assets, it issues exactly one buy per snapshot asset,
\* in snapshot order, for 90/n percent at the asset's snapshot price; when it
\* fires on a ledger with positions, or with an empty snapshot, it issues
\* nothing and the ledger stays as it is.  So in a run whose ledger holds a
\* position, buys were issued on exactly one trading date.
C5_FirstTouch ==
    /\ [][ (Len(calls') > Len(calls)
            /\ calls'[Len(calls) + 1].op = "execute_equal_weight") =>
             LET orders == Tail(NewCalls)
                 n == Len(current_prices)
             IN IF Held(portfolio) = {} /\ n >= 1
                THEN /\ Len(orders) = n
                     /\ \A k \in 1..n :
                          /\ orders[k].op = "buy"
                          /\ orders[k].ticker = current_prices[k][1]
                          /\ orders[k].pct[1] * n = 90 * orders[k].pct[2]
                          /\ orders[k].price = current_prices[k][2]
                ELSE orders = <<>> /\ portfolio' = portfolio ]_vars
    /\ [](strategy = "equal_weight" /\ Held(portfolio) # {} =>
             Cardinality(BuyDays) = 1)

C5_Witness ==
    /\ strategy = "equal_weight"
    /\ pc = "idle"
    /\ ret.kind = "result"
    /\ Len(SelectSeq(calls, LAMBDA c : c.op = "execute_equal_weight")) >= 3
    /\ Len(SelectSeq(calls, LAMBDA c : c.op = "buy")) = 2
    /\ Cardinality(Held(portfolio)) = 2

\* C6: under buy-and-hold the executor allocates on the first rebalance
\* opportunity, so once the first date's rebalance step is over (its snapshot
\* not being empty) buys have been issued and the ledger holds positions.
C6_BuyAndHoldAllocates ==
    (strategy = "buy_and_hold" /\ pc = "loop" /\ i = 0
     /\ LoopBody[step] = "record" /\ current_prices # <<>>) =>
        /\ \E k \in 1..Len(calls) : calls[k].op = "buy" /\ calls[k].i = 0
        /\ Held(portfolio) # {}

ExecuteDays ==
    {calls[k].i :
        k \in {j \in 1..Len(calls) :
                 calls[j].op \in {"execute_equal_weight", "execute_llm"}}}

Opportunity(day_index) ==
    \/ rebalance_frequency = "daily"
    \/ rebalance_frequency = "weekly" /\ day_index % 5 = 0

HasExecutor == strategy = "equal_weight" \/ (strategy = "llm" /\ use_llm)

\* C7: the executor is invoked on a date exactly when the date is a
\* rebalance opportunity: every date under "daily", the dates whose 0-based
\* index is divisible by 5 under "weekly" (of 12 dates: 0, 5 and 10).  On any
\* other date no call is issued in the strategy step, and the ledger changes
\* only in update_prices.
C7_RebalanceGate ==
    /\ [][ At("strategy") =>
             IF Opportunity(i)
             THEN HasExecutor =>
                    /\ Len(calls') > Len(calls)
                    /\ calls'[Len(calls) + 1].op \in
                           {"execute_equal_weight", "execute_llm"}
             ELSE calls' = calls /\ portfolio' = portfolio ]_vars
    /\ [][ (portfolio' # portfolio /\ pc = "loop" /\ ~Opportunity(i)) =>
             (At("update") /\ calls'[Len(calls')].op = "update_prices") ]_vars
    /\ [](\A k \in 1..Len(calls) : Rank(calls[k].op) = 3 =>
             Opportunity(calls[k].i))
    /\ []((HasExecutor /\ pc \in {"benchmark", "metrics", "return"}) =>
             ExecuteDays = {d \in 0..(Len(trading_dates) - 1) : Opportunity(d)})
    /\ []((HasExecutor /\ pc = "benchmark" /\ rebalance_frequency = "weekly"
           /\ Len(trading_dates) = 12) => ExecuteDays = {0, 5, 10})

C7_Witness ==
    /\ pc = "benchmark"
    /\ strategy = "equal_weight"
    /\ rebalance_frequency = "weekly"
    /\ Len(trading_dates) = 12
    /\ ExecuteDays = {0, 5, 10}

\* C8: _calculate_metrics raises on no non-empty DailyResult sequence,
\* whatever its values, the initial capital and the benchmark series.
C8_NeverRaises == metrics.kind # "raise"

BenchmarkBars ==
    IF DefaultBenchmark \in DataTickers(data)
    THEN Cardinality({d \in DataBars(data, DefaultBenchmark) :
                        start_date <= d /\ d <= end_date})
    ELSE 0

\* C9: beta and alpha are computed only for a non-empty benchmark return
\* series exactly as long as the per-step returns, both being 0 for any
\* other; so in run_backtest they are computed only when the benchmark has as
\* many bars in the window as the run has trading dates.
C9_BetaGate ==
    metrics.kind = "report" =>
        /\ (benchmark_returns = <<>>
            \/ Len(benchmark_returns) # Len(metrics.daily_returns)) =>
               (metrics.beta = "zero" /\ metrics.alpha = "zero")
        /\ metrics.alpha = "computed" =>
               /\ Len(benchmark_returns) = Len(metrics.daily_returns)
               /\ BenchmarkBars = Len(trading_dates)

Max(S) == CHOOSE x \in S : \A y \in S : y <= x

\* The highest of the initial capital and the first k total values.
PeakAt(k) == Max({initial_capital} \cup {results[j].total_value : j \in 1..k})

\* C10: in every report, the drawdown curve has one entry per equity-curve
\* entry, entry k being (peak - V[k]) / peak for the running peak that starts
\* at initial_capital; max_drawdown is the largest entry and lies in [0, 1].
C10_MaxDrawdown ==
    metrics.kind = "report" =>
        LET curve == metrics.drawdown_curve
            md == metrics.max_drawdown
        IN /\ Len(curve) = Len(metrics.equity_curve)
           /\ Len(curve) = Len(results)
           /\ \A k \in 1..Len(curve) :
                /\ metrics.equity_curve[k] = results[k].total_value
                /\ curve[k] = <<PeakAt(k) - results[k].total_value, PeakAt(k)>>
                /\ RatLe(curve[k], md)
           /\ \E k \in 1..Len(curve) : RatEq(curve[k], md)
           /\ md[2] > 0
           /\ 0 <= md[1]
           /\ md[1] <= md[2]

C10_Witness ==
    /\ metrics.kind = "report"
    /\ Len(results) = MaxLen
    /\ results[2].total_value > initial_capital
    /\ results[MaxLen].total_value < results[2].total_value
    /\ metrics.max_drawdown[1] > 0

\* C11: in run_comparison_backtest a strategy whose run fails, by an empty
\* result or by an exception of a collaborator, fails alone: the sweep does
\* not end by an exception, and it returns a mapping with an entry for every
\* strategy, the report of every strategy with a result having been printed.
C11_SweepIsolated ==
    /\ sweep.pc # "raised"
    /\ sweep.pc = "done" =>
         /\ sweep.returned
         /\ Len(sweep.results) = Len(sweep.strategies)
         /\ \A k \in 1..Len(sweep.strategies) :
              /\ sweep.results[k].strategy = sweep.strategies[k]
              /\ sweep.reports[k].strategy = sweep.strategies[k]
              /\ sweep.reports[k].printed = (sweep.results[k].kind = "result")

Position(x, xs) == CHOOSE k \in 1..Len(xs) : xs[k] = x

\* The requested tickers whose history request succeeded with bars.
Fetchable ==
    {tickers[k] : k \in {j \in 1..Len(tickers) :
                           tickers[j] \notin fetch_raises
                           /\ last[tickers[j]] >= 0}}

\* C12: fetch_historical_data returns a mapping whose keys are exactly the
\* requested tickers whose history request neither raised nor came back
\* empty, each once and in request order, whatever happened to the tickers
\* before and after them.
C12_FetchDropsOnlyFailures ==
    (pc = "fetched" \/ runs > 0) =>
        /\ {fetched[k] : k \in 1..Len(fetched)} = Fetchable
        /\ Len(fetched) = Cardinality(Fetchable)
        /\ \A j, k \in 1..Len(fetched) :
               j < k => Position(fetched[j], tickers)
                          < Position(fetched[k], tickers)

C12_Witness ==
    /\ pc = "fetched"
    /\ Len(tickers) = 3
    /\ tickers[1] \in fetch_raises
    /\ last[tickers[2]] >= 0
    /\ tickers[3] \notin fetch_raises
    /\ last[tickers[3]] = -1
    /\ fetched = <<tickers[2]>>

\* The instructions of the reply being executed whose asset is in the
\* current snapshot, by their position in the reply.
PresentInstructions ==
    {j \in 1..Len(AgentReply(agent_calls).actions) :
        \E k \in 1..Len(current_prices) :
            current_prices[k][1] = AgentReply(agent_calls).actions[j].ticker}

\* The k-th of them, in the order received.
KthPresent(k) ==
    CHOOSE j \in PresentInstructions :
        Cardinality({m \in PresentInstructions : m < j}) = k - 1

\* The ledger after the calls cs made on it one after the other.
RECURSIVE LedgerAfter(_, _)
LedgerAfter(p, cs) ==
    IF cs = <<>> THEN p
    ELSE LedgerAfter(IF Head(cs).op = "buy"
                     THEN LedgerBuy(p, Head(cs).ticker, Head(cs).pct,
                                    Head(cs).price)
                     ELSE LedgerSell(p, Head(cs).ticker, Head(cs).price),
                     Tail(cs))

\* C13: when the agent-driven executor fires and the agent answers, the
\* ledger calls it makes are, in the order received, one per instruction
\* whose asset is in the current snapshot: a buy with the instruction's pct
\* or a sell, at the asset's snapshot price, on the day's ledger; an
\* instruction whose asset is absent makes no call and the instructions
\* after it are still executed.
C13_InstructionsInOrder ==
    [][ (Len(calls') > Len(calls)
         /\ calls'[Len(calls) + 1].op = "execute_llm"
         /\ ~AgentReply(agent_calls).raises) =>
          LET orders == Tail(NewCalls)
              actions == AgentReply(agent_calls).actions
          IN /\ Len(orders) = Cardinality(PresentInstructions)
             /\ \A k \in 1..Len(orders) :
                  LET a == actions[KthPresent(k)]
                  IN /\ orders[k].op = a.action
                     /\ orders[k].ticker = a.ticker
                     /\ orders[k].i = i
                     /\ \E n \in 1..Len(current_prices) :
                          /\ current_prices[n][1] = a.ticker
                          /\ current_prices[n][2] = orders[k].price
                     /\ a.action = "buy" => orders[k].pct = <<a.pct, 1>>
             /\ portfolio' = LedgerAfter(portfolio, orders) ]_vars

C13_Witness ==
    \E k \in 1..Len(calls) :
        /\ calls[k].op = "execute_llm"
        /\ Len(calls) >= k + 2
        /\ calls[k + 1].op = "sell" /\ calls[k + 1].ticker = "SPY"
        /\ calls[k + 2].op = "buy" /\ calls[k + 2].ticker = "QQQ"
        /\ calls[k + 2].pct = <<40, 1>>
        /\ calls[k + 1].i = calls[k].i /\ calls[k + 2].i = calls[k].i
        /\ Held(portfolio) = {"QQQ"}

====
